---- MODULE Spec2Model ----
(***************************************************************************)
(* A model of the truyenfull crawler service (VietPh37030/CrawlDataApi):   *)
(* chapter enumeration (app/crawler), the relational and blob stores        *)
(* (app/database.py), the chapter read cascade (app/api/routes.py), the     *)
(* crawl scheduler (app/scheduler.py) and the crawl tasks                   *)
(* (app/crawler/runner.py, workers/tasks.py).                               *)
(*                                                                         *)
(* The module holds several specifications over one set of variables:      *)
(*   SpecEnum   enumeration of a story's chapter list and its consumers     *)
(*   SpecList   the walk of a story listing (crawl_story_list)              *)
(*   SpecPager  the page count of a paginated page (get_pagination_info)    *)
(*   SpecRead   the chapter read and the writers of a chapter row           *)
(*   SpecSched  the scheduler: manual runs and the stop endpoint            *)
(*   SpecAuto   the scheduler: the auto loop beside one manual run          *)
(*   SpecLoop   the scheduler: the auto loop alone, scheduled fairly        *)
(*   SpecTask   crawl tasks: init_crawl and the runners                     *)
(*   SpecCelery crawl tasks: the Celery task beside a runner                *)
(* A variable a specification does not use keeps its initial value.         *)
(***************************************************************************)
EXTENDS Integers, Sequences, FiniteSets, TLC

VARIABLES
    \* ---- enumeration (SpecEnum)
    site,          \* the chapter-list pages of the story being enumerated
    enum,          \* the enumeration under way: position and the lists produced
    catalog,       \* the pages of the site's story listing
    lwalk,         \* the crawl_story_list call under way (SpecList)
    pager,         \* the page given to get_pagination_info and its result (SpecPager)
    \* ---- stores (all specifications)
    stories,       \* table "stories": a set of rows
    chapters,      \* table "chapters": (story_id, chapter_number) -> row or NoRow
    storage,       \* bucket "chapters": (story_id, chapter_number) -> blob or NoBlob
    \* ---- chapter read (SpecRead)
    rd,            \* the read_chapter request under way
    \* ---- scheduler (SpecSched)
    is_running,
    auto_enabled,
    current_story,
    stats,
    progress,
    workers,       \* the manual_crawl calls and the auto loop: position and locals
    \* ---- crawl tasks (SpecTask)
    tasks,         \* table "crawl_tasks": task id -> row
    runners,       \* the runner process of each task: position and locals
    celery         \* the crawl_story_task message and its executions

enumVars  == <<site, enum, catalog, lwalk, pager>>
dbVars    == <<stories, chapters, storage>>
readVars  == <<rd>>
schedVars == <<is_running, auto_enabled, current_story, stats, progress, workers>>
taskVars  == <<tasks, runners, celery>>
vars      == <<site, enum, catalog, lwalk, pager, stories, chapters, storage, rd, is_running, auto_enabled,
               current_story, stats, progress, workers, tasks, runners, celery>>

(***************************************************************************)
(* Bounds of the model.                                                     *)
(***************************************************************************)
MaxNum      == 3   \* chapter numbers that labels and URLs carry: 1..MaxNum
MaxLinks    == 4   \* links of one story's chapter list, over all its pages
MaxPages    == 2   \* chapter-list pages of one story
ReadChapters == 1  \* chapters of the story that SpecRead reads and writes
MaxRuns     == 2   \* manual_crawl calls
MaxPasses   == 2   \* passes of the auto loop after one start
NumStories  == 1   \* stories on a listing page of the site
NumChapters == 2   \* chapters of a story of the site
MaxListPages == 3  \* pages of a story listing (SpecList)
MaxPageNum == 3    \* page numbers in the pagination markup (SpecPager)
MaxTasks    == 2   \* init_crawl calls
MaxParseLinks == 2 \* links of the page given to the parser (SpecParse)
MaxBatchChapters == 101  \* chapters of the story whose batches are saved (SpecBatch)

(***************************************************************************)
(* Values.                                                                  *)
(***************************************************************************)
Null    == "<null>"       \* Python None / SQL NULL
NoRow   == "<norow>"      \* no row under that key
NoBlob  == "<noblob>"     \* no object under that path
NoNum   == -1             \* re.search found no number

\* Python truthiness of a str | None value: `if content:`
Truthy(v) == v # Null /\ v # ""

\* Python truthiness of an int | None value: `if not chapter_num:`
TruthyNum(n) == n # NoNum /\ n # 0

Min(a, b) == IF a <= b THEN a ELSE b

(***************************************************************************)
(* Chapter-list parsing (app/crawler/parsers.py).                           *)
(*                                                                         *)
(* A link of a chapter-list page is what the parser reads of an <a>:        *)
(*   pager  TRUE for a pagination control (href without 'chuong', or an     *)
(*          anchor text of bare digits)                                     *)
(*   tnum   the N of a "Chương N" label in the anchor text, NoNum if none   *)
(*   unum   the N of a "chuong-N" suffix in the href, NoNum if none         *)
(*   url    the href (identifies the chapter on the site)                   *)
(***************************************************************************)
ChapterLink(n) == [pager |-> FALSE, tnum |-> n, unum |-> n, url |-> n]

\* A chapter link whose label and URL carry no number: the parser numbers
\* it with its position on the page.
PlainLink == [pager |-> FALSE, tnum |-> NoNum, unum |-> NoNum, url |-> 0]

\* A chapter link labelled "Chương 0" with href chuong-0.
ZeroLink == [pager |-> FALSE, tnum |-> 0, unum |-> 0, url |-> 0]

Links == {ChapterLink(n) : n \in 1..MaxNum} \cup {PlainLink, ZeroLink}

\* An extraction that looks at the URL's suffix before the title's label.
extract_url_first(link) ==
    IF link.unum # NoNum THEN link.unum
    ELSE IF link.tnum # NoNum THEN link.tnum
    ELSE NoNum

\* extract_chapter_number: the title's label first, else the URL's suffix.
extract_chapter_number(link) ==
    IF link.tnum # NoNum THEN link.tnum
    ELSE IF link.unum # NoNum THEN link.unum
    ELSE NoNum

\* A parser that keeps whatever number was extracted, 0 included.
RECURSIVE ParseFromKeepsZero(_, _, _)
ParseFromKeepsZero(page, i, valid_index) ==
    IF i > Len(page) THEN <<>>
    ELSE LET link == page[i]
             num  == extract_chapter_number(link)
             chapter_num == IF num # NoNum THEN num ELSE valid_index
         IN  IF link.pager
             THEN ParseFromKeepsZero(page, i + 1, valid_index)
             ELSE <<[chapter_number |-> chapter_num, url |-> link.url]>>
                  \o ParseFromKeepsZero(page, i + 1, valid_index + 1)

\* A parser in which a pagination control, though it yields no record, takes
\* a value of the running index.
RECURSIVE ParseFromCountsPagers(_, _, _)
ParseFromCountsPagers(page, i, valid_index) ==
    IF i > Len(page) THEN <<>>
    ELSE LET link == page[i]
             num  == extract_chapter_number(link)
             chapter_num == IF TruthyNum(num) THEN num ELSE valid_index
         IN  IF link.pager
             THEN ParseFromCountsPagers(page, i + 1, valid_index + 1)
             ELSE <<[chapter_number |-> chapter_num, url |-> link.url]>>
                  \o ParseFromCountsPagers(page, i + 1, valid_index + 1)

\* parse_chapter_list, from link i on, valid_index being the running index.
RECURSIVE ParseFrom(_, _, _)
ParseFrom(page, i, valid_index) ==
    IF i > Len(page) THEN <<>>
    ELSE LET link == page[i]
             num  == extract_chapter_number(link)
             chapter_num == IF TruthyNum(num) THEN num ELSE valid_index
         IN  IF link.pager
             THEN ParseFrom(page, i + 1, valid_index)
             ELSE <<[chapter_number |-> chapter_num, url |-> link.url]>>
                  \o ParseFrom(page, i + 1, valid_index + 1)

parse_chapter_list(page) == ParseFrom(page, 1, 1)

(***************************************************************************)
(* Enumeration (StoryCrawler.crawl_story) and what its consumers make of    *)
(* the list.                                                                *)
(***************************************************************************)
\* The chapters of pages p..total_pages appended in page order; a page in
\* `failed` raised in navigate/parse and is skipped (except ... continue).
RECURSIVE ExtendPages(_, _, _)
ExtendPages(pages, p, failed) ==
    IF p > Len(pages) THEN <<>>
    ELSE (IF p \in failed THEN <<>> ELSE parse_chapter_list(pages[p]))
         \o ExtendPages(pages, p + 1, failed)

\* story["chapters"] as crawl_story returns it: page 1 (parse_story_detail)
\* followed by pages 2..total_pages.
crawl_story_chapters(pages, failed) ==
    parse_chapter_list(pages[1]) \o ExtendPages(pages, 2, failed)

\* seen_chapters of _crawl_and_save_story: the first record of each number,
\* in the order the numbers were first seen (a Python dict keeps insertion
\* order).
RECURSIVE DedupFrom(_, _, _)
DedupFrom(list, i, seen) ==
    IF i > Len(list) THEN <<>>
    ELSE IF list[i].chapter_number \in seen
         THEN DedupFrom(list, i + 1, seen)
         ELSE <<list[i]>> \o DedupFrom(list, i + 1, seen \cup {list[i].chapter_number})

seen_chapters(raw_chapters) == DedupFrom(raw_chapters, 1, {})

\* list.sort(key=chapter_number): a stable insertion into a sorted list.
RECURSIVE InsertSorted(_, _)
InsertSorted(sorted, ch) ==
    IF sorted = <<>> THEN <<ch>>
    ELSE IF Head(sorted).chapter_number <= ch.chapter_number
         THEN <<Head(sorted)>> \o InsertSorted(Tail(sorted), ch)
         ELSE <<ch>> \o sorted

RECURSIVE SortFrom(_, _, _)
SortFrom(list, i, acc) ==
    IF i > Len(list) THEN acc
    ELSE SortFrom(list, i + 1, InsertSorted(acc, list[i]))

sort_chapters(list) == SortFrom(list, 1, <<>>)

\* `chapters` of _crawl_and_save_story: the list the scheduler persists.
scheduler_chapters(raw_chapters) == sort_chapters(seen_chapters(raw_chapters))

\* The runner (run_full_crawl) iterates story_data["chapters"] as returned.
runner_chapters(raw_chapters) == raw_chapters

NoDuplicate(list) ==
    \A i, j \in 1..Len(list) : i # j => list[i].chapter_number # list[j].chapter_number

Ascending(list) ==
    \A i, j \in 1..Len(list) : i < j => list[i].chapter_number <= list[j].chapter_number

(***************************************************************************)
(* The stores (app/database.py).  The tables and the bucket are partial     *)
(* functions from the key to the row or blob.  A chapter row carries        *)
(* is_archived and content (the inline body); every writer of the program   *)
(* sets source_url, so a row always has one.                                 *)
(***************************************************************************)
Texts == {"t1", "t2"}        \* chapter bodies the source site may serve

\* gzip.compress(content.encode()) / gzip.decompress(data).decode()
gzip_compress(text) == <<"gz", text>>
gzip_decompress(data) == data[2]

\* Database.upsert_chapter / one record of bulk_upsert_chapters: ON CONFLICT
\* (story_id, chapter_number) DO UPDATE of the columns given; the columns not
\* given (is_archived, storage_path) keep their value, and take the column
\* default on insert.
upsert_chapter(tbl, k, content) ==
    IF k \in DOMAIN tbl
    THEN [tbl EXCEPT ![k].content = content]
    ELSE (k :> [is_archived |-> FALSE, content |-> content]) @@ tbl

\* The UPDATE of upload_chapter_content: is_archived = True, content = None,
\* on the rows that match (none, if the chapter has no row).
mark_archived(tbl, k) ==
    IF k \in DOMAIN tbl
    THEN [tbl EXCEPT ![k] = [is_archived |-> TRUE, content |-> Null]]
    ELSE tbl

UploadOutcomes == {"ok", "upload_raises", "update_raises"}

\* Database.upload_chapter_content: the blob is put first, the row updated
\* second; an exception of either call is caught and makes the result False.
\* Result: the tables after the call and the bool returned.
upload_chapter_content(tbl, sto, k, content, outcome) ==
    IF ~Truthy(content)
    THEN [chapters |-> tbl, storage |-> sto, success |-> FALSE]
    ELSE IF outcome = "upload_raises"
    THEN [chapters |-> tbl, storage |-> sto, success |-> FALSE]
    ELSE IF outcome = "update_raises"
    THEN [chapters |-> tbl,
          storage  |-> (k :> gzip_compress(content)) @@ sto,
          success  |-> FALSE]
    ELSE [chapters |-> mark_archived(tbl, k),
          storage  |-> (k :> gzip_compress(content)) @@ sto,
          success  |-> TRUE]

\* Database.download_chapter_content: the text, or None when the download or
\* the decompression raises (a missing object raises in the storage client).
download_chapter_content(sto, k, ok) ==
    IF ok /\ k \in DOMAIN sto THEN gzip_decompress(sto[k]) ELSE Null

\* Database.is_chapter_archived
is_chapter_archived(tbl, k) ==
    IF k \in DOMAIN tbl THEN tbl[k].is_archived ELSE FALSE

(***************************************************************************)
(* The chapter read (routes.read_chapter).  The handler suspends once, in   *)
(* the live fetch (await client.get); the Database methods are coroutines   *)
(* that never suspend.  rd records the request: the row it read, what each  *)
(* tier yielded and the content it returns; prev: the key of the request    *)
(* before it, what its live tier parsed and what its upload returned.       *)
(***************************************************************************)
ReadKeys == {<<1, n>> : n \in 1..ReadChapters}

Placeholder == "Loi tai noi dung"     \* f"Lỗi tải nội dung: {str(e)}"

FetchOutcomes == {"error", "empty"} \cup Texts

RdIdle == [pc |-> "idle", key |-> <<0, 0>>, chapter |-> NoRow, content |-> "",
           archive |-> "skipped", inline |-> "skipped", live |-> "skipped",
           upload |-> "none", fallback |-> "none",
           prev |-> [key |-> <<0, 0>>, live |-> "skipped", upload |-> "none"]]

\* A cascade that does not try the inline column of an archived chapter.
CascadeArchiveOnly(chapter, sto, k, dl) ==
    LET fromStorage == IF chapter.is_archived
                       THEN download_chapter_content(sto, k, dl)
                       ELSE ""
        useInline   == ~chapter.is_archived
        content     == IF useInline THEN chapter.content ELSE fromStorage
    IN  [content |-> content,
         archive |-> IF ~chapter.is_archived THEN "skipped"
                     ELSE IF Truthy(fromStorage) THEN "hit" ELSE "miss",
         inline  |-> IF ~useInline THEN "skipped"
                     ELSE IF Truthy(chapter.content) THEN "hit" ELSE "miss"]

\* Steps 1 and 2 of the cascade on the row read: the content after them and
\* what each tier did.  dl: whether the download succeeds.
Cascade(chapter, sto, k, dl) ==
    LET fromStorage == IF chapter.is_archived
                       THEN download_chapter_content(sto, k, dl)
                       ELSE ""
        useInline   == ~Truthy(fromStorage)
        content     == IF useInline THEN chapter.content ELSE fromStorage
    IN  [content |-> content,
         archive |-> IF ~chapter.is_archived THEN "skipped"
                     ELSE IF Truthy(fromStorage) THEN "hit" ELSE "miss",
         inline  |-> IF ~useInline THEN "skipped"
                     ELSE IF Truthy(chapter.content) THEN "hit" ELSE "miss"]

\* A cascade that fetches whatever steps 1 and 2 yielded.
LiveFetchAlways(content) == TRUE

\* Whether step 3 runs: `if not content and chapter.get("source_url")`.
NeedsLiveFetch(content) == ~Truthy(content)

\* The request up to its only suspension point: the row is read, storage and
\* the inline column are tried; the request either returns or awaits the
\* source site.
ReadBegin(k) ==
    /\ rd.pc \in {"idle", "done"}
    /\ k \in DOMAIN chapters
    /\ \E dl \in BOOLEAN :
         LET c == Cascade(chapters[k], storage, k, dl)
         IN  rd' = [RdIdle EXCEPT !.pc = IF NeedsLiveFetch(c.content)
                                          THEN "fetching" ELSE "done",
                                  !.key = k, !.chapter = chapters[k],
                                  !.content = c.content,
                                  !.archive = c.archive, !.inline = c.inline,
                                  !.prev = [key |-> rd.key, live |-> rd.live,
                                            upload |-> rd.upload]]
    /\ UNCHANGED <<enumVars, dbVars, schedVars, taskVars>>

\* A live tier that uploads and has no inline write behind it.
save_without_fallback(tbl, sto, k, text, up, fallbackOk) ==
    upload_chapter_content(tbl, sto, k, text, up)

\* The live tier's save of the text it parsed: the upload, and the inline
\* upsert if the upload returned False (the upsert may raise: fallbackOk).
save_live_content(tbl, sto, k, text, up, fallbackOk) ==
    LET r == upload_chapter_content(tbl, sto, k, text, up)
    IN  [r EXCEPT !.chapters = IF ~r.success /\ fallbackOk
                               THEN upsert_chapter(r.chapters, k, text)
                               ELSE r.chapters]

\* The content the request returns after a fetch that parsed `text`:
\* the text, unless the fallback upsert raised into the except clause.
ContentAfterSave(text, success, fallbackOk) ==
    IF success \/ fallbackOk THEN text ELSE Placeholder

\* The content returned when the page parsed to no body: parsed["content"].
ContentWhenEmpty == ""

\* The response of the source site arrives.  error: client.get or
\* raise_for_status raised; empty: the page parsed to no body; a text: it is
\* uploaded, and written inline if the upload returned False.
ReadFetched ==
    /\ rd.pc = "fetching"
    /\ \E f \in FetchOutcomes, up \in UploadOutcomes, fallbackOk \in BOOLEAN :
         LET k == rd.key
             r == save_live_content(chapters, storage, k, f, up, fallbackOk)
         IN  IF f = "error"
             THEN /\ rd' = [rd EXCEPT !.pc = "done", !.live = "error",
                                      !.content = Placeholder]
                  /\ UNCHANGED <<chapters, storage>>
             ELSE IF f = "empty"
             THEN /\ rd' = [rd EXCEPT !.pc = "done", !.live = "empty",
                                      !.content = ContentWhenEmpty]
                  /\ UNCHANGED <<chapters, storage>>
             ELSE /\ storage' = r.storage
                  /\ chapters' = r.chapters
                  /\ rd' = [rd EXCEPT
                              !.pc = "done", !.live = f,
                              !.upload = IF r.success THEN "ok" ELSE "failed",
                              !.fallback = IF r.success THEN "none"
                                           ELSE IF fallbackOk THEN "ok" ELSE "raised",
                              !.content = ContentAfterSave(f, r.success, fallbackOk)]
    /\ UNCHANGED <<enumVars, stories, schedVars, taskVars>>

\* ---- the writers of a chapter row, as the reader's environment ----------

\* The scheduler's metadata phase upserts the row with an empty body.
WriterMetadata(k) ==
    /\ chapters' = upsert_chapter(chapters, k, "")
    /\ UNCHANGED <<enumVars, stories, storage, readVars, schedVars, taskVars>>

\* The runner upserts the row with the body it crawled.
WriterRunner(k, text) ==
    /\ chapters' = upsert_chapter(chapters, k, text)
    /\ UNCHANGED <<enumVars, stories, storage, readVars, schedVars, taskVars>>

\* A backfill (the scheduler's content phase, sync-offline) uploads the body
\* of a chapter that has a row.
WriterArchive(k, text, outcome) ==
    /\ k \in DOMAIN chapters
    /\ LET r == upload_chapter_content(chapters, storage, k, text, outcome)
       IN  chapters' = r.chapters /\ storage' = r.storage
    /\ UNCHANGED <<enumVars, stories, readVars, schedVars, taskVars>>

NextRead ==
    \/ \E k \in ReadKeys : ReadBegin(k)
    \/ ReadFetched
    \/ \E k \in ReadKeys : WriterMetadata(k)
    \/ \E k \in ReadKeys, t \in Texts : WriterRunner(k, t)
    \/ \E k \in ReadKeys, t \in Texts, o \in UploadOutcomes : WriterArchive(k, t, o)

(***************************************************************************)
(* Stories (app/crawler/parsers.py, app/database.py).  A URL is the         *)
(* sequence of its characters; a story row carries id, slug and             *)
(* total_chapters.                                                          *)
(***************************************************************************)
RECURSIVE rstrip_slash(_)
rstrip_slash(url) ==
    IF url # <<>> /\ url[Len(url)] = "/"
    THEN rstrip_slash(SubSeq(url, 1, Len(url) - 1))
    ELSE url

\* url.split("/")[-1]: the characters after the last "/".
RECURSIVE last_part(_)
last_part(url) ==
    IF url = <<>> \/ url[Len(url)] = "/" THEN <<>>
    ELSE last_part(SubSeq(url, 1, Len(url) - 1)) \o <<url[Len(url)]>>

\* extract_slug_from_url
extract_slug_from_url(url) == last_part(rstrip_slash(url))

\* The id the store gives a row it inserts (a fresh uuid).
NewId(tbl) == IF tbl = {} THEN 1
              ELSE 1 + CHOOSE m \in {r.id : r \in tbl} : \A r \in tbl : r.id <= m

\* An upsert that always inserts.
upsert_story_as_insert(tbl, slug, total_chapters) ==
    tbl \cup {[id |-> NewId(tbl), slug |-> slug, total_chapters |-> total_chapters]}

\* Database.upsert_story: ON CONFLICT (slug) DO UPDATE.
upsert_story(tbl, slug, total_chapters) ==
    IF \E r \in tbl : r.slug = slug
    THEN {IF r.slug = slug THEN [r EXCEPT !.total_chapters = total_chapters] ELSE r
          : r \in tbl}
    ELSE tbl \cup {[id |-> NewId(tbl), slug |-> slug, total_chapters |-> total_chapters]}

\* Database.get_story_by_slug(...)["id"], 0 for None.
story_id_by_slug(tbl, slug) ==
    IF \E r \in tbl : r.slug = slug
    THEN (CHOOSE r \in tbl : r.slug = slug).id
    ELSE 0

(***************************************************************************)
(* The source site, as the scheduler sees it.                               *)
(***************************************************************************)
SlugNames == <<"a", "b", "c", "d", "e", "f", "g", "i">>

StoryUrl(i) == <<"h", "/", SlugNames[i], "/">>

\* No next page (pagination["next_page_url"] is None).
NoNext == 0

\* crawl_story_list(list_url, max_pages) on a listing whose pages are lpages:
\* a page is [stubs, next], next the page its pagination links to or NoNext.
\* `for page_num in range(max_pages)` at page_num, the page at hand being cur.
\* Result: the stubs collected and the pages fetched, in order.
\* A walk that fetches the page at hand and no other, whatever the bound.
ListFromOnePage(lpages, cur, page_num, max_pages, all_stories, fetched) ==
    [stories |-> all_stories \o lpages[cur].stubs, fetched |-> Append(fetched, cur)]

RECURSIVE ListFrom(_, _, _, _, _, _)
ListFrom(lpages, cur, page_num, max_pages, all_stories, fetched) ==
    IF page_num >= max_pages
    THEN [stories |-> all_stories, fetched |-> fetched]
    ELSE LET pg  == lpages[cur]
             all == all_stories \o pg.stubs
             fs  == Append(fetched, cur)
         IN  IF pg.next # NoNext /\ page_num < max_pages - 1
             THEN ListFrom(lpages, pg.next, page_num + 1, max_pages, all, fs)
             ELSE [stories |-> all, fetched |-> fs]

crawl_story_list(lpages, max_pages) == ListFrom(lpages, 1, 0, max_pages, <<>>, <<>>)

\* A listing of n pages of NumStories stories each, every page linking to
\* the next one.
SiteCatalog(n) ==
    [p \in 1..n |->
        [stubs |-> [i \in 1..NumStories |-> StoryUrl((p - 1) * NumStories + i)],
         next  |-> IF p < n THEN p + 1 ELSE NoNext]]

\* _run_crawl_job: crawl_story_list(..., max_pages=2).
auto_max_pages == 2

\* The chapter list of a story: page 1 lists every chapter, page 2 repeats
\* the last one (overlapping pages).
SitePages(url) ==
    << [n \in 1..NumChapters |-> ChapterLink(n)], <<ChapterLink(NumChapters)>> >>

\* A story page on which the parser finds no chapter link.
EmptyStoryPages == << <<>> >>

SiteBody == "t1"

KnownCategories == {"hot", "new", "completed"}

(***************************************************************************)
(* The scheduler (app/scheduler.py).  Everything runs on one event loop:    *)
(* a coroutine runs without interruption from one suspension point to the   *)
(* next.  The suspension points are crawl_story_list, crawl_story,          *)
(* client.get and asyncio.sleep; the Database methods never suspend.  An    *)
(* action is what a coroutine does from one suspension to the next, and is  *)
(* computed on S, the scheduler's state together with the stores and the    *)
(* acting worker's locals.                                                  *)
(***************************************************************************)
AutoId    == 0
RunIds    == 1..MaxRuns

WorkerIds == {AutoId} \cup RunIds

\* A loop task that outlived its cancellation: stop_auto_crawl has dropped
\* self.task, the coroutine goes on (see StopAutoCrawl).  `workers` has an
\* entry for it in the specification that follows such coroutines
\* (SpecCancel); the others follow the tasks that end when cancelled.
LostId    == -1
AutoIds   == {AutoId, LostId}

StatsZero == [stories_crawled |-> 0, chapters_saved |-> 0, errors |-> 0]

ProgressIdle == [current_chapter |-> 0, total_chapters |-> 0, percent |-> 0,
                 status |-> "idle"]

\* A worker's locals.  stopped, wrote_after: for the properties, see Stop.
\* raised: the worker's last step ended in the pipeline's `except Exception`.
\* skipped: the worker's last step found no chapter and left the pipeline.
\* got, uploaded: what the worker's last step, a chapter fetch, parsed and
\* whether upload_chapter_content returned True for it.
\* bi, saved_count: the offset and the count of the batch loop when it is
\* stepped one batch at a time (SpecBatch); batches, lostrows: the chapter
\* numbers submitted by each batch so far and those whose row failed.
\* cancelled: stop_auto_crawl was called while the run was in a story's
\* pipeline; went_on: the run has since begun the fetch of a chapter or the
\* pipeline of a story.
WorkerIdle == [pc |-> "idle", cats |-> <<>>, max_pages |-> 0, cat |-> 0,
               list |-> <<>>, si |-> 0,
               chs |-> <<>>, story_id |-> 0, ci |-> 0, result |-> "none",
               passes |-> 0, stopped |-> 0, wrote_after |-> FALSE,
               raised |-> FALSE, skipped |-> FALSE, cancelled |-> FALSE,
               went_on |-> FALSE, got |-> "none", uploaded |-> FALSE,
               bi |-> 0, saved_count |-> 0, batches |-> <<>>, lostrows |-> {}]

Bundle(w) == [ir |-> is_running, ae |-> auto_enabled, cs |-> current_story,
              st |-> stats, pr |-> progress, sto |-> stories, ch |-> chapters,
              bl |-> storage, w |-> [workers[w] EXCEPT !.raised = FALSE, !.skipped = FALSE,
                                       !.got = "none", !.uploaded = FALSE]]

\* The variables after worker w's step ended in S.
Commit(w, S) ==
    /\ is_running' = S.ir
    /\ auto_enabled' = S.ae
    /\ current_story' = S.cs
    /\ stats' = S.st
    /\ progress' = S.pr
    /\ stories' = S.sto
    /\ chapters' = S.ch
    /\ storage' = S.bl
    /\ workers' = [workers EXCEPT ![w] = S.w]

\* Whether the cancellation check of the pipeline's loops breaks.
StopRequested(S) == ~S.ir /\ ~S.ae

\* _crawl_and_save_story, from its first line to `await crawl_story`.
StartPipeline(S, i) ==
    [S EXCEPT !.cs = extract_slug_from_url(S.w.list[i]),
              !.pr = [current_chapter |-> 0, total_chapters |-> 0, percent |-> 0,
                      status |-> "crawling_story"],
              !.w.pc = "enumerating", !.w.si = i, !.w.chs = <<>>,
              !.w.story_id = 0, !.w.ci = 0, !.w.stopped = 0,
              !.w.went_on = @ \/ S.w.cancelled]

\* manual_crawl returns: `return {...}` and the finally clause.
ManualReturn(S, result) ==
    [S EXCEPT !.ir = FALSE, !.cs = <<>>,
              !.w = [WorkerIdle EXCEPT !.pc = "returned", !.result = result,
                                       !.wrote_after = S.w.wrote_after,
                                       !.went_on = S.w.went_on]]

\* manual_crawl's `for category in categories`, at category c.
RECURSIVE NextCategory(_, _)
NextCategory(S, c) ==
    IF c > Len(S.w.cats) \/ ~S.ir THEN ManualReturn(S, "completed")
    ELSE IF S.w.cats[c] \notin KnownCategories THEN NextCategory(S, c + 1)
    ELSE [S EXCEPT !.w.pc = "listing", !.w.cat = c, !.w.list = <<>>, !.w.si = 0,
                   !.w.chs = <<>>, !.w.ci = 0]

\* _run_crawl_job returns to _auto_crawl_loop, which sleeps the interval.
AutoJobEnd(S) ==
    [S EXCEPT !.w = [WorkerIdle EXCEPT !.pc = "waiting", !.passes = S.w.passes]]

\* The loop over the stories of a listing, at story i: manual_crawl's
\* `for story_info in stories`, _run_crawl_job's `for story_info in stories[:10]`.
NextStory(S, w, i) ==
    IF w \in AutoIds
    THEN IF i > Min(Len(S.w.list), 10) \/ ~S.ae
         THEN AutoJobEnd(S)
         ELSE StartPipeline(S, i)
    ELSE IF i > Len(S.w.list) \/ ~S.ir
         THEN NextCategory(S, S.w.cat + 1)
         ELSE StartPipeline(S, i)

\* The end of _crawl_and_save_story after the content loop.
PipelineEnd(S) == [S EXCEPT !.pr.status = "done", !.pr.percent = 100]

ChapterKey(S, i) == <<S.w.story_id, S.w.chs[i].chapter_number>>

\* A content loop that fetches the chapter at hand, archived or not.
ContentLoopNoSkip(S, w, i) ==
    IF i > Len(S.w.chs) \/ StopRequested(S)
    THEN NextStory(PipelineEnd(S), w, S.w.si + 1)
    ELSE [S EXCEPT !.w.pc = "fetching", !.w.ci = i,
                   !.w.went_on = @ \/ S.w.cancelled]

\* The content loop `for idx, ch in enumerate(chapters)` at chapter i (from 1),
\* up to the next `await client.get`.
RECURSIVE ContentLoop(_, _, _)
ContentLoop(S, w, i) ==
    IF i > Len(S.w.chs) \/ StopRequested(S)
    THEN NextStory(PipelineEnd(S), w, S.w.si + 1)
    ELSE IF is_chapter_archived(S.ch, ChapterKey(S, i))
    THEN ContentLoop(S, w, i + 1)
    ELSE [S EXCEPT !.w.pc = "fetching", !.w.ci = i,
                   !.w.went_on = @ \/ S.w.cancelled]

batch_size == 50

\* The rows of one batch upserted with an empty body; a row in `lost` fails
\* (in the bulk statement's one-by-one fallback).  Result: the table and the
\* number of rows saved.
UpsertBatch(tbl, story_id, batch, lost) ==
    LET kept == {j \in 1..Len(batch) : batch[j].chapter_number \notin lost}
        keys == {<<story_id, batch[j].chapter_number>> : j \in kept}
    IN  [chapters |-> [k \in DOMAIN tbl \cup keys |->
                          IF k \in keys THEN upsert_chapter(tbl, k, "")[k] ELSE tbl[k]],
         saved    |-> Cardinality(kept)]

\* Database.bulk_upsert_chapters: one statement for the batch; if it raises,
\* every row is upserted alone and the rows that fail again are dropped.
bulk_upsert_chapters(tbl, story_id, batch, bulkOk, lost) ==
    UpsertBatch(tbl, story_id, batch, IF bulkOk THEN {} ELSE lost)

\* int((progress / total) * 100)
Percent(done, total) == (done * 100) \div total

\* A batch whose bulk statement, once it fails, is not retried row by row.
SaveBatchAllOrNothing(S, w, i, bulkOk, lost) ==
    LET total == Len(S.w.chs)
        batch == SubSeq(S.w.chs, i + 1, Min(i + batch_size, total))
        r     == IF bulkOk
                 THEN bulk_upsert_chapters(S.ch, S.w.story_id, batch, bulkOk, lost)
                 ELSE [chapters |-> S.ch, saved |-> 0]
        done  == Min(i + batch_size, total)
    IN  [S     |-> [S EXCEPT !.ch = r.chapters,
                             !.pr.current_chapter = done,
                             !.pr.total_chapters = total,
                             !.pr.percent = Percent(done, total)],
         saved |-> r.saved]

\* The body of the batch loop at offset i: chapters[i:i + batch_size] are
\* upserted and the progress is set.  Result: the state and len(result).
SaveBatch(S, w, i, bulkOk, lost) ==
    LET total == Len(S.w.chs)
        batch == SubSeq(S.w.chs, i + 1, Min(i + batch_size, total))
        r     == bulk_upsert_chapters(S.ch, S.w.story_id, batch, bulkOk, lost)
        done  == Min(i + batch_size, total)
    IN  [S     |-> [S EXCEPT !.ch = r.chapters,
                             !.pr.current_chapter = done,
                             !.pr.total_chapters = total,
                             !.pr.percent = Percent(done, total)],
         saved |-> r.saved]

\* The batch loop `for i in range(0, total_chapters, batch_size)` at offset i,
\* then the statistics, then the content loop.
RECURSIVE BatchLoop(_, _, _, _, _, _)
BatchLoop(S, w, i, saved_count, bulkOk, lost) ==
    LET total == Len(S.w.chs) IN
    IF i >= total \/ StopRequested(S)
    THEN ContentLoop([S EXCEPT !.st.stories_crawled = @ + 1,
                               !.st.chapters_saved = @ + saved_count,
                               !.pr.status = "syncing_content"], w, 1)
    ELSE LET b == SaveBatch(S, w, i, bulkOk, lost)
         IN  BatchLoop(b.S, w, i + batch_size, saved_count + b.saved, bulkOk, lost)

\* The batch loop of worker w, one iteration at a time: at offset bi the
\* loop ends (the statistics are added) or saves one batch, whose bulk
\* statement succeeds or fails with one of its rows failing again.
SaveBatches(w) ==
    /\ workers[w].pc = "saving"
    /\ LET S     == Bundle(w)
           total == Len(S.w.chs)
           i     == S.w.bi
       IN  IF i >= total \/ StopRequested(S)
           THEN Commit(w, [S EXCEPT !.st.stories_crawled = @ + 1,
                                    !.st.chapters_saved = @ + S.w.saved_count,
                                    !.pr.status = "syncing_content",
                                    !.w.pc = "saved"])
           ELSE LET batch == SubSeq(S.w.chs, i + 1, Min(i + batch_size, total))
                    nums  == [j \in 1..Len(batch) |-> batch[j].chapter_number]
                IN  \E bulkOk \in BOOLEAN, lost \in {{}, {nums[1]}, {nums[Len(nums)]}} :
                      LET b == SaveBatch(S, w, i, bulkOk, lost)
                      IN  Commit(w, [b.S EXCEPT !.w.bi = i + batch_size,
                                                !.w.saved_count = @ + b.saved,
                                                !.w.batches = Append(@, nums),
                                                !.w.lostrows = @ \cup (IF bulkOk THEN {} ELSE lost)])
    /\ UNCHANGED <<enumVars, readVars, taskVars>>

\* A pipeline whose exception, once counted, ends the pass.
PipelineRaisedEndsPass(S, w) ==
    [AutoJobEnd([S EXCEPT !.st.errors = @ + 1]) EXCEPT !.w.raised = TRUE]

\* The pipeline's `except Exception`: the error is counted, the pipeline
\* returns to the story loop.
PipelineRaised(S, w) ==
    [NextStory([S EXCEPT !.st.errors = @ + 1], w, S.w.si + 1) EXCEPT !.w.raised = TRUE]

StoryOutcomes == {"ok", "raises", "rejected"}

\* A pipeline that takes every enumeration for an empty one and counts the
\* skip as an error.
MetadataPhaseSkipCounted(S, w, raw_chapters, storyOutcome, bulkOk, lost) ==
    [NextStory([S EXCEPT !.st.errors = @ + 1], w, S.w.si + 1)
        EXCEPT !.w.skipped = TRUE]

\* _crawl_and_save_story from the return of crawl_story to the first
\* `await client.get`: dedup and sort, the story upsert, the chapter batches.
\* storyOutcome: the story upsert stores the row, raises, or stores nothing
\* and returns no data (the id is then looked up by slug).  The stories of
\* the site carry no cover, so upload_cover_from_url is not awaited.
MetadataPhase(S, w, raw_chapters, storyOutcome, bulkOk, lost) ==
    LET chs   == scheduler_chapters(raw_chapters)
        total == Len(chs)
        slug  == extract_slug_from_url(S.w.list[S.w.si])
        S1    == [S EXCEPT !.pr.total_chapters = total]
        sto2  == IF storyOutcome = "rejected" THEN S.sto
                 ELSE upsert_story(S.sto, slug, total)
    IN  IF total = 0
        THEN [NextStory(S1, w, S.w.si + 1) EXCEPT !.w.skipped = TRUE]
        ELSE IF storyOutcome = "raises" THEN PipelineRaised(S1, w)
        ELSE IF story_id_by_slug(sto2, slug) = 0
        THEN NextStory([S1 EXCEPT !.st.errors = @ + 1], w, S.w.si + 1)
        ELSE BatchLoop([S1 EXCEPT !.sto = sto2,
                                  !.w.story_id = story_id_by_slug(sto2, slug),
                                  !.w.chs = chs,
                                  !.pr.status = "saving_chapters"],
                       w, 0, 0, bulkOk, lost)

CategoryInputs == {<<"new">>}

MaxPagesInputs == {1}

\* manual_crawl(categories, max_pages) is called.
ManualCrawl(r) ==
    /\ workers[r].pc = "idle"
    /\ \E cats \in CategoryInputs, max_pages \in MaxPagesInputs :
         IF is_running
         THEN /\ workers' = [workers EXCEPT ![r].pc = "returned", ![r].result = "busy"]
              /\ UNCHANGED <<is_running, auto_enabled, current_story, stats, progress,
                             dbVars>>
         ELSE Commit(r, NextCategory([Bundle(r) EXCEPT !.ir = TRUE, !.st = StatsZero,
                                                       !.w.cats = cats,
                                                       !.w.max_pages = max_pages], 1))
    /\ UNCHANGED <<enumVars, readVars, taskVars>>

\* crawl_story_list returns the listing, or raises.
ListingDone(w) ==
    /\ workers[w].pc = "listing"
    /\ \E ok \in BOOLEAN :
         LET S == Bundle(w)
             max_pages == IF w \in AutoIds THEN auto_max_pages ELSE S.w.max_pages
         IN
         IF ok THEN Commit(w, NextStory([S EXCEPT !.w.list = crawl_story_list(catalog, max_pages).stories],
                                        w, 1))
         ELSE IF w \in AutoIds THEN Commit(w, AutoJobEnd(S))
         ELSE Commit(w, ManualReturn(S, "failed"))
    /\ UNCHANGED <<enumVars, readVars, taskVars>>

\* crawl_story returns the story with its chapter list (that of the site, or
\* none when the story page shows no chapter link), or raises.
EnumDone(w) ==
    /\ workers[w].pc = "enumerating"
    /\ LET S     == Bundle(w)
           pages == SitePages(S.w.list[S.w.si])
       IN  \/ Commit(w, PipelineRaised(S, w))
           \/ Commit(w, MetadataPhase(S, w, crawl_story_chapters(EmptyStoryPages, {}),
                                      "ok", TRUE, {}))
           \/ \E failed \in SUBSET (2..Len(pages)), storyOutcome \in StoryOutcomes,
                 lost \in SUBSET (1..NumChapters) :
              \E bulkOk \in {b \in BOOLEAN : b => lost = {}} :
                Commit(w, MetadataPhase(S, w, crawl_story_chapters(pages, failed),
                                        storyOutcome, bulkOk, lost))
    /\ UNCHANGED <<enumVars, readVars, taskVars>>

SchedFetchOutcomes == {"error", "empty", SiteBody}

\* Whether an upload with that outcome left a blob in the bucket.
StoresBlob(content, outcome) == Truthy(content) /\ outcome # "upload_raises"

\* client.get returns.  error: the request or raise_for_status raised, the
\* except clause counts it and the loop goes on without sleeping.  Otherwise
\* the body, if any, is uploaded, progress is updated and the coroutine sleeps.
FetchDone(w) ==
    /\ workers[w].pc = "fetching"
    /\ \E f \in SchedFetchOutcomes, up \in UploadOutcomes :
         LET S == Bundle(w)
             i == S.w.ci
             k == ChapterKey(S, i)
             r == upload_chapter_content(S.ch, S.bl, k, f, up)
         IN  IF f = "error" THEN Commit(w, ContentLoop(S, w, i + 1))
             ELSE Commit(w,
                    [S EXCEPT !.ch = IF f = "empty" THEN S.ch ELSE r.chapters,
                              !.bl = IF f = "empty" THEN S.bl ELSE r.storage,
                              !.pr.current_chapter = i,
                              !.pr.percent = Percent(i, Len(S.w.chs)),
                              !.w.pc = "sleeping",
                              !.w.got = f,
                              !.w.uploaded = (f # "empty" /\ r.success),
                              !.w.wrote_after =
                                  @ \/ (f # "empty" /\ StoresBlob(f, up)
                                        /\ S.w.stopped # 0 /\ i > S.w.stopped)])
    /\ UNCHANGED <<enumVars, readVars, taskVars>>

\* asyncio.sleep(0.3) returns: the next iteration of the content loop.
SleepDone(w) ==
    /\ workers[w].pc = "sleeping"
    /\ Commit(w, ContentLoop(Bundle(w), w, workers[w].ci + 1))
    /\ UNCHANGED <<enumVars, readVars, taskVars>>

\* stop_auto_crawl: both flags are cleared, the auto task is cancelled and
\* self.task dropped.  CancelledError is raised at the task's suspension
\* point and ends the loop (`except asyncio.CancelledError: break`), unless
\* the task is suspended in the mouse movements of simulate_human_behavior,
\* whose bare `except: pass` takes the CancelledError: the coroutine then
\* goes on, no longer reachable by a later stop (swallowed; the model keeps
\* one such coroutine at a time, where `workers` has the entry for it).
\* browser.navigate, which makes these
\* movements, is awaited by crawl_story_list and by crawl_story.
\* A manual run that is between two chapters (asleep after chapter
\* ci) has `stopped` set to ci: it was cancelled after the backfill of
\* chapter ci and before that of chapter ci + 1.
StopAutoCrawl ==
    /\ auto_enabled' = FALSE
    /\ is_running' = FALSE
    /\ current_story' = <<>>
    /\ \E swallowed \in {b \in BOOLEAN :
                            b => /\ workers[AutoId].pc \in {"listing", "enumerating"}
                                 /\ LostId \in DOMAIN workers
                                 /\ workers[LostId].pc = "idle"} :
       workers' = [w \in DOMAIN workers |->
                     IF w = AutoId
                     THEN [WorkerIdle EXCEPT !.passes = workers[w].passes]
                     ELSE IF w = LostId
                     THEN IF swallowed THEN workers[AutoId] ELSE workers[w]
                     ELSE IF workers[w].pc = "sleeping"
                     THEN [workers[w] EXCEPT !.stopped = workers[w].ci,
                                             !.cancelled = TRUE]
                     ELSE IF workers[w].pc \in {"enumerating", "fetching"}
                     THEN [workers[w] EXCEPT !.cancelled = TRUE]
                     ELSE workers[w]]
    /\ UNCHANGED <<stats, progress, dbVars, enumVars, readVars, taskVars>>

\* start_auto_crawl: already_running, or the flag is set and the loop task
\* created.
StartAutoCrawl ==
    /\ IF auto_enabled
       THEN UNCHANGED <<auto_enabled, workers>>
       ELSE /\ auto_enabled' = TRUE
            /\ workers' = [workers EXCEPT
                             ![AutoId] = [WorkerIdle EXCEPT
                                            !.pc = "loop",
                                            !.passes = workers[AutoId].passes]]
    /\ UNCHANGED <<is_running, current_story, stats, progress, dbVars, enumVars,
                   readVars, taskVars>>

\* _auto_crawl_loop evaluates `while self.auto_enabled` (on its first run, or
\* after the interval's sleep) and starts _run_crawl_job, up to
\* `await crawl_story_list`.
AutoLoop(w) ==
    /\ workers[w].pc \in {"loop", "waiting"}
    /\ workers[w].passes < MaxPasses
    /\ IF auto_enabled
       THEN workers' = [workers EXCEPT ![w].pc = "listing",
                                       ![w].passes = @ + 1,
                                       ![w].raised = FALSE,
                                       ![w].skipped = FALSE]
       ELSE workers' = [workers EXCEPT ![w].pc = "idle"]
    /\ UNCHANGED <<is_running, auto_enabled, current_story, stats, progress, dbVars,
                   enumVars, readVars, taskVars>>

\* SpecSched: the manual endpoint and the stop endpoint, called in any order
\* while the manual runs are in flight.
NextSched ==
    \/ \E r \in RunIds : ManualCrawl(r)
    \/ \E w \in RunIds : ListingDone(w)
    \/ \E w \in RunIds : EnumDone(w)
    \/ \E w \in RunIds : FetchDone(w)
    \/ \E w \in RunIds : SleepDone(w)
    \/ StopAutoCrawl

\* SpecAuto: the auto crawl's endpoints and loop, beside one manual run.
AutoWorkers == {AutoId, 1}

NextAuto ==
    \/ ManualCrawl(1)
    \/ \E w \in AutoWorkers : ListingDone(w)
    \/ \E w \in AutoWorkers : EnumDone(w)
    \/ \E w \in AutoWorkers : FetchDone(w)
    \/ \E w \in AutoWorkers : SleepDone(w)
    \/ StopAutoCrawl
    \/ StartAutoCrawl
    \/ AutoLoop(AutoId)

\* SpecLoop: the auto loop alone, started and stopped at any time.  The loop
\* task is scheduled whenever it can run: every await of the loop returns or
\* raises (the fetches have timeouts, the sleeps end).
AutoStep ==
    \/ ListingDone(AutoId)
    \/ EnumDone(AutoId)
    \/ FetchDone(AutoId)
    \/ SleepDone(AutoId)
    \/ AutoLoop(AutoId)

NextLoop ==
    \/ ListingDone(AutoId)
    \/ EnumDone(AutoId)
    \/ FetchDone(AutoId)
    \/ SleepDone(AutoId)
    \/ AutoLoop(AutoId)
    \/ StartAutoCrawl
    \/ StopAutoCrawl

\* SpecCancel: the auto loop started and stopped at any time, together with
\* the loop coroutine that outlived a cancellation.
NextCancel ==
    \/ \E w \in AutoIds : ListingDone(w)
    \/ \E w \in AutoIds : EnumDone(w)
    \/ \E w \in AutoIds : FetchDone(w)
    \/ \E w \in AutoIds : SleepDone(w)
    \/ \E w \in AutoIds : AutoLoop(w)
    \/ StartAutoCrawl
    \/ StopAutoCrawl

(***************************************************************************)
(* Crawl tasks (routes.init_crawl, app/crawler/runner.py,                   *)
(* workers/tasks.py).  init_crawl inserts the task row and spawns a runner  *)
(* process; crawl_story_task is the Celery task over the same table.  A     *)
(* step runs from one crawl of the source site to the next.                 *)
(***************************************************************************)
TaskIds == 1..MaxTasks

max_retries == 3

TaskError == "error"        \* str(e)

\* Database.create_task with the row init_crawl builds.
create_task(tbl, task_id) ==
    (task_id :> [status |-> "processing", progress |-> 0, error |-> Null]) @@ tbl

\* Database.update_task: UPDATE of the columns given WHERE id = task_id.
update_task(tbl, task_id, task_data) ==
    IF task_id \in DOMAIN tbl
    THEN LET row == tbl[task_id]
         IN  [tbl EXCEPT ![task_id] =
                 [c \in DOMAIN row |-> IF c \in DOMAIN task_data THEN task_data[c]
                                       ELSE row[c]]]
    ELSE tbl

\* A runner process.  response: what init_crawl answered for the task;
\* duplicate: for the properties, whether init_crawl was called while a manual
\* run was active and a runner of the same URL was in flight; escaped: for
\* the properties, whether an exception reached run_full_crawl's handler.
RunnerIdle == [pc |-> "none", url |-> <<>>, chs |-> <<>>, ci |-> 0, story_id |-> 0,
               response |-> "none", duplicate |-> FALSE, escaped |-> FALSE]

RunnerInFlight(r) == r.pc \in {"spawned", "crawling", "chapter"}

TaskBundle(t) == [tk |-> tasks, sto |-> stories, ch |-> chapters, r |-> runners[t]]

TaskCommit(t, R) ==
    /\ tasks' = R.tk
    /\ stories' = R.sto
    /\ chapters' = R.ch
    /\ runners' = [runners EXCEPT ![t] = R.r]

\* init_crawl(url): a fresh task id t (the ids are given out in order), the
\* row inserted (a failure of the insert is only logged), the runner
\* spawned, status 200 returned.
InitCrawl(t, url) ==
    /\ runners[t].pc = "none"
    /\ \A u \in TaskIds : u < t => runners[u].pc # "none"
    /\ \E createOk \in BOOLEAN :
         tasks' = IF createOk THEN create_task(tasks, t) ELSE tasks
    /\ runners' = [runners EXCEPT
                     ![t] = [RunnerIdle EXCEPT
                               !.pc = "spawned", !.url = url, !.response = "200",
                               !.duplicate =
                                   is_running /\ \E u \in TaskIds :
                                       RunnerInFlight(runners[u])
                                       /\ runners[u].url = url]]
    /\ UNCHANGED <<enumVars, dbVars, readVars, schedVars, celery>>

\* run_full_crawl's `except Exception`: status failed is written; if that
\* write raises too, the process ends on the exception.
RunnerFailed(R, t, failOk) ==
    IF failOk
    THEN [R EXCEPT !.tk = update_task(R.tk, t, [status |-> "failed",
                                                error |-> TaskError]),
                   !.r.pc = "exited", !.r.escaped = TRUE]
    ELSE [R EXCEPT !.r.pc = "crashed", !.r.escaped = TRUE]

\* "Mark as completed".
RunnerCompleted(R, t, doneOk, failOk) ==
    IF doneOk
    THEN [R EXCEPT !.tk = update_task(R.tk, t, [status |-> "completed",
                                                progress |-> 100]),
                   !.r.pc = "exited"]
    ELSE RunnerFailed(R, t, failOk)

\* progress = 10 + int((i / total_chapters) * 85), i counted from 0
RunnerProgress(i, total_chapters) == 10 + (i * 85) \div total_chapters

\* `for i, chapter_info in enumerate(story_data["chapters"])` at entry i
\* (from 1), up to `await crawl_single_chapter`; the progress is written at
\* every third entry.
RunnerLoop(R, t, i, doneOk, failOk) ==
    IF i > Len(R.r.chs) THEN RunnerCompleted(R, t, doneOk, failOk)
    ELSE [R EXCEPT !.tk = IF (i - 1) % 3 = 0
                          THEN update_task(R.tk, t,
                                 [progress |-> RunnerProgress(i - 1, Len(R.r.chs))])
                          ELSE R.tk,
                   !.r.pc = "chapter", !.r.ci = i]

\* The runner process starts: run_full_crawl up to `await crawl_story`
\* (the runner is spawned with crawl_chapters = True, init_crawl's default).
RunnerStart(t) ==
    /\ runners[t].pc = "spawned"
    /\ \E ok \in BOOLEAN, failOk \in BOOLEAN :
         LET R == TaskBundle(t)
         IN  TaskCommit(t, IF ok
                           THEN [R EXCEPT !.tk = update_task(R.tk, t,
                                                   [status |-> "processing",
                                                    progress |-> 5]),
                                          !.r.pc = "crawling"]
                           ELSE RunnerFailed(R, t, failOk))
    /\ UNCHANGED <<enumVars, storage, readVars, schedVars, celery>>

\* crawl_story returns or raises; the story is upserted and the chapter loop
\* entered.
RunnerCrawlDone(t) ==
    /\ runners[t].pc = "crawling"
    /\ \E crawlOk \in BOOLEAN, storyOutcome \in StoryOutcomes,
          doneOk \in BOOLEAN, failOk \in BOOLEAN :
       \E failed \in SUBSET (2..Len(SitePages(runners[t].url))) :
         LET R    == TaskBundle(t)
             raw  == runner_chapters(crawl_story_chapters(SitePages(R.r.url), failed))
             slug == extract_slug_from_url(R.r.url)
             R1   == [R EXCEPT !.tk = update_task(R.tk, t, [progress |-> 10])]
             sto2 == IF storyOutcome = "rejected" THEN R.sto
                     ELSE upsert_story(R.sto, slug, Len(raw))
             id   == story_id_by_slug(sto2, slug)
         IN  IF ~crawlOk \/ storyOutcome = "raises"
             THEN TaskCommit(t, RunnerFailed(IF crawlOk THEN R1 ELSE R, t, failOk))
             ELSE IF id = 0 THEN TaskCommit(t, RunnerFailed(R1, t, failOk))
             ELSE TaskCommit(t, RunnerLoop([R1 EXCEPT !.sto = sto2, !.r.story_id = id,
                                                      !.r.chs = raw],
                                           t, 1, doneOk, failOk))
    /\ UNCHANGED <<enumVars, storage, readVars, schedVars, celery>>

\* crawl_single_chapter returns the chapter (it catches its own errors and
\* then returns no content); a body is upserted inline, an error of the
\* upsert is caught and the loop goes on.
RunnerChapterDone(t) ==
    /\ runners[t].pc = "chapter"
    /\ \E body \in {Null, SiteBody}, upsertOk \in BOOLEAN,
          doneOk \in BOOLEAN, failOk \in BOOLEAN :
         LET R  == TaskBundle(t)
             k  == <<R.r.story_id, R.r.chs[R.r.ci].chapter_number>>
             R1 == IF Truthy(body) /\ upsertOk
                   THEN [R EXCEPT !.ch = upsert_chapter(R.ch, k, body)]
                   ELSE R
         IN  TaskCommit(t, RunnerLoop(R1, t, R.r.ci + 1, doneOk, failOk))
    /\ UNCHANGED <<enumVars, storage, readVars, schedVars, celery>>

\* ---- workers/tasks.py: crawl_story_task(task_id, url, crawl_chapters) ----

CeleryIdle == [pc |-> "none", task_id |-> 0, url |-> <<>>, retries |-> 0]

\* A client of the queue sends crawl_story_task for a task of the table.
CeleryDispatch(t, url) ==
    /\ celery.pc = "none"
    /\ t \in DOMAIN tasks
    /\ celery' = [CeleryIdle EXCEPT !.pc = "queued", !.task_id = t, !.url = url]
    /\ UNCHANGED <<enumVars, dbVars, readVars, schedVars, tasks, runners>>

\* _crawl's `except Exception` writes status failed and re-raises;
\* crawl_story_task then calls self.retry, which queues the task again
\* until max_retries is used up.  Result: the table and the message.
CeleryFailed(tbl, c, failOk) ==
    [tk |-> IF failOk
            THEN update_task(tbl, c.task_id, [status |-> "failed",
                                              error |-> TaskError])
            ELSE tbl,
     c  |-> IF c.retries < max_retries
            THEN [c EXCEPT !.pc = "queued", !.retries = @ + 1]
            ELSE [c EXCEPT !.pc = "gave_up"]]

\* A worker takes the message: _crawl up to `await crawl_story`.
CeleryBegin ==
    /\ celery.pc = "queued"
    /\ \E ok \in BOOLEAN, failOk \in BOOLEAN :
         LET f == CeleryFailed(tasks, celery, failOk)
         IN  IF ok
             THEN /\ tasks' = update_task(tasks, celery.task_id,
                                          [status |-> "running", progress |-> 0])
                  /\ celery' = [celery EXCEPT !.pc = "crawling"]
             ELSE tasks' = f.tk /\ celery' = f.c
    /\ UNCHANGED <<enumVars, dbVars, readVars, schedVars, runners>>

\* chapters_to_save: the crawled chapters that have a body (those numbered
\* in `got`), upserted with the body by bulk_upsert_chapters.
RECURSIVE CelerySave(_, _, _, _, _)
CelerySave(tbl, story_id, chs, j, got) ==
    IF j > Len(chs) THEN tbl
    ELSE LET n == chs[j].chapter_number
         IN  CelerySave(IF n \in got THEN upsert_chapter(tbl, <<story_id, n>>, SiteBody)
                        ELSE tbl,
                        story_id, chs, j + 1, got)

\* crawl_story (with the chapter bodies) returns or raises; the story and the
\* chapters are saved and the task marked completed.  An upsert that returns
\* no row leaves story_id None: the chapters are skipped.
CeleryCrawlDone ==
    /\ celery.pc = "crawling"
    /\ \E crawlOk \in BOOLEAN, storyOutcome \in StoryOutcomes, failOk \in BOOLEAN,
          got \in SUBSET (1..NumChapters) :
         LET raw  == crawl_story_chapters(SitePages(celery.url), {})
             slug == extract_slug_from_url(celery.url)
             tk1  == update_task(tasks, celery.task_id, [progress |-> 50])
             sto2 == upsert_story(stories, slug, Len(raw))
             id   == story_id_by_slug(sto2, slug)
             f    == CeleryFailed(IF crawlOk THEN tk1 ELSE tasks, celery, failOk)
         IN  IF ~crawlOk \/ storyOutcome = "raises"
             THEN /\ tasks' = f.tk /\ celery' = f.c
                  /\ UNCHANGED <<stories, chapters>>
             ELSE /\ tasks' = update_task(tk1, celery.task_id,
                                          [status |-> "completed", progress |-> 100])
                  /\ celery' = [celery EXCEPT !.pc = "done"]
                  /\ IF storyOutcome = "rejected"
                     THEN UNCHANGED <<stories, chapters>>
                     ELSE /\ stories' = sto2
                          /\ chapters' = CelerySave(chapters, id, raw, 1, got)
    /\ UNCHANGED <<enumVars, storage, readVars, schedVars, runners>>

\* SpecTask: init_crawl calls and their runners, beside a manual run of the
\* scheduler that starts (its later steps are SpecSched's).
NextTask ==
    \/ \E t \in TaskIds, i \in 1..NumStories : InitCrawl(t, StoryUrl(i))
    \/ \E t \in TaskIds : RunnerStart(t)
    \/ \E t \in TaskIds : RunnerCrawlDone(t)
    \/ \E t \in TaskIds : RunnerChapterDone(t)
    \/ ManualCrawl(1)
    \/ ListingDone(1)

\* SpecCelery: one task, its runner and one crawl_story_task message for it.
NextCelery ==
    \/ \E i \in 1..NumStories : InitCrawl(1, StoryUrl(i))
    \/ RunnerStart(1)
    \/ RunnerCrawlDone(1)
    \/ RunnerChapterDone(1)
    \/ \E i \in 1..NumStories : CeleryDispatch(1, StoryUrl(i))
    \/ CeleryBegin
    \/ CeleryCrawlDone

(***************************************************************************)
(* SpecEnum: one enumeration of a story and the list each consumer makes    *)
(* of it.  A site is the story's chapter list cut into its pages.           *)
(***************************************************************************)
SeqsUpTo(S, n) == UNION {[1..k -> S] : k \in 0..n}

Cuts(n, p) == {c \in [1..(p - 1) -> 0..n] : \A i \in 1..(p - 2) : c[i] <= c[i + 1]}

Split(flat, c, p) ==
    [k \in 1..p |->
        SubSeq(flat, (IF k = 1 THEN 0 ELSE c[k - 1]) + 1,
                     IF k = p THEN Len(flat) ELSE c[k])]

\* Every list of at most MaxLinks links, cut into at most MaxPages pages.
IsSite(s) ==
    \E flat \in SeqsUpTo(Links, MaxLinks), p \in 1..MaxPages :
        \E c \in Cuts(Len(flat), p) : s = Split(flat, c, p)

EnumIdle == [pc |-> "idle", failed |-> {}, crawled |-> <<>>, persisted |-> <<>>]

\* crawl_story returns: page 1 was fetched and parsed, each further page
\* either parsed or failed and was skipped.
CrawlStory ==
    /\ enum.pc = "idle"
    /\ \E failed \in SUBSET (2..Len(site)) :
          enum' = [enum EXCEPT !.pc = "crawled", !.failed = failed,
                               !.crawled = crawl_story_chapters(site, failed)]
    /\ UNCHANGED <<site, catalog, lwalk, pager, dbVars, readVars, schedVars, taskVars>>

\* The navigation to the story page (page 1) raises: nothing catches it
\* inside crawl_story, the caller gets the exception.
CrawlStoryRaises ==
    /\ enum.pc = "idle"
    /\ enum' = [enum EXCEPT !.pc = "raised", !.failed = {1}]
    /\ UNCHANGED <<site, catalog, lwalk, pager, dbVars, readVars, schedVars, taskVars>>

\* _crawl_and_save_story takes the list: dedup, sort, persist.
SchedulerTakes ==
    /\ enum.pc = "crawled"
    /\ enum' = [enum EXCEPT !.pc = "scheduler",
                            !.persisted = scheduler_chapters(enum.crawled)]
    /\ UNCHANGED <<site, catalog, lwalk, pager, dbVars, readVars, schedVars, taskVars>>

\* run_full_crawl takes the list: one upsert per entry, in list order.
RunnerTakes ==
    /\ enum.pc = "crawled"
    /\ enum' = [enum EXCEPT !.pc = "runner",
                            !.persisted = runner_chapters(enum.crawled)]
    /\ UNCHANGED <<site, catalog, lwalk, pager, dbVars, readVars, schedVars, taskVars>>

NextEnum == CrawlStory \/ CrawlStoryRaises \/ SchedulerTakes \/ RunnerTakes

(***************************************************************************)
(* SpecList: crawl_story_list on any listing, one step per page fetched.    *)
(* Page p of a listing carries the stub of story p or none, and links to    *)
(* any page of the listing (itself and earlier pages included) or to none.  *)
(***************************************************************************)
IsCatalog(c) ==
    \E n \in 1..MaxListPages :
        c \in [1..n -> [stubs : UNION {{<<>>, <<StoryUrl(p)>>} : p \in 1..n},
                        next  : {NoNext} \cup (1..n)]]
        /\ \A p \in 1..n : c[p].stubs \in {<<>>, <<StoryUrl(p)>>}

WalkIdle == [pc |-> "idle", max_pages |-> 0, page_num |-> 0, cur |-> 0,
             all_stories |-> <<>>, fetched |-> <<>>]

\* crawl_story_list(list_url, max_pages) is called: up to the first
\* navigation, or the return when range(max_pages) is empty.
ListStart ==
    /\ lwalk.pc = "idle"
    /\ \E max_pages \in 0..(MaxListPages + 1) :
         lwalk' = [WalkIdle EXCEPT !.max_pages = max_pages,
                                   !.pc = IF max_pages > 0 THEN "fetching" ELSE "done",
                                   !.cur = IF max_pages > 0 THEN 1 ELSE 0]
    /\ UNCHANGED <<site, enum, catalog, pager, dbVars, readVars, schedVars, taskVars>>

\* The page at hand arrives and is parsed: its stubs are appended, and the
\* walk goes to its next page or ends.
ListPageDone ==
    /\ lwalk.pc = "fetching"
    /\ LET pg == catalog[lwalk.cur]
           more == pg.next # NoNext /\ lwalk.page_num < lwalk.max_pages - 1
       IN  lwalk' = [lwalk EXCEPT
                       !.all_stories = @ \o pg.stubs,
                       !.fetched = Append(@, lwalk.cur),
                       !.cur = IF more THEN pg.next ELSE @,
                       !.page_num = IF more THEN @ + 1 ELSE @,
                       !.pc = IF more THEN "fetching" ELSE "done"]
    /\ UNCHANGED <<site, enum, catalog, pager, dbVars, readVars, schedVars, taskVars>>

\* The navigation raises: nothing catches it, the caller gets the exception.
ListPageRaises ==
    /\ lwalk.pc = "fetching"
    /\ lwalk' = [lwalk EXCEPT !.pc = "raised"]
    /\ UNCHANGED <<site, enum, catalog, pager, dbVars, readVars, schedVars, taskVars>>

NextList == ListStart \/ ListPageDone \/ ListPageRaises

(***************************************************************************)
(* SpecPager: get_pagination_info on any page.  What the parser reads of    *)
(* the markup:                                                              *)
(*   has_pager  an element matches the pagination selectors                 *)
(*   last       the N of the 'trang-N' href of the first "last page" link   *)
(*              of the pager, NoNum if there is no such link or its href    *)
(*              carries no page number                                      *)
(*   links      the N of every 'trang-N' href of the pager's links (the     *)
(*              "last page" link is one of them)                            *)
(*   digits     the pager's <a>/<span> texts that are bare digits           *)
(***************************************************************************)
PageNums == 0..MaxPageNum

Markups ==
    {m \in [has_pager : BOOLEAN, last : {NoNum} \cup PageNums,
            links : SUBSET PageNums, digits : SUBSET PageNums] :
        /\ m.last # NoNum => m.last \in m.links
        /\ ~m.has_pager => m.last = NoNum /\ m.links = {} /\ m.digits = {}}

\* The running maximum of the loops `if page_num > max_page: max_page = ...`.
MaxFrom(start, nums) == CHOOSE x \in nums \cup {start} : \A y \in nums \cup {start} : y <= x

\* get_pagination_info(html)["total_pages"]
get_pagination_info(m) ==
    LET t0 == 1
        t1 == IF m.last # NoNum THEN m.last ELSE t0
        t2 == IF t1 = 1 THEN MaxFrom(1, m.links) ELSE t1
        t3 == IF t2 = 1 THEN MaxFrom(t2, m.digits) ELSE t2
    IN  IF m.has_pager THEN t3 ELSE t0

PagerIdle == [pc |-> "idle",
              markup |-> [has_pager |-> FALSE, last |-> NoNum, links |-> {},
                          digits |-> {}],
              total_pages |-> 1]

ParsePagination ==
    /\ pager.pc = "idle"
    /\ pager' = [pager EXCEPT !.pc = "done",
                              !.total_pages = get_pagination_info(pager.markup)]
    /\ UNCHANGED <<site, enum, catalog, lwalk, dbVars, readVars, schedVars, taskVars>>

NextPager == ParsePagination

(***************************************************************************)
(* Initial states and specifications.                                       *)
(***************************************************************************)
EmptyTable == [k \in {} |-> NoRow]

EnumInit0  == /\ site = <<<<>>>> /\ enum = EnumIdle
              /\ catalog = SiteCatalog(1) /\ lwalk = WalkIdle /\ pager = PagerIdle
DbInit     == stories = {} /\ chapters = EmptyTable /\ storage = EmptyTable
ReadInit0  == rd = RdIdle
SchedInit0 == /\ is_running = FALSE
              /\ auto_enabled = FALSE
              /\ current_story = <<>>
              /\ stats = StatsZero
              /\ progress = ProgressIdle
              /\ workers = [w \in WorkerIds |-> WorkerIdle]
TaskInit0  == /\ tasks = EmptyTable
              /\ runners = [t \in TaskIds |-> RunnerIdle]
              /\ celery = CeleryIdle

InitEnum  == IsSite(site) /\ enum = EnumIdle /\ catalog = SiteCatalog(1)
             /\ lwalk = WalkIdle /\ pager = PagerIdle /\ DbInit /\ ReadInit0 /\ SchedInit0 /\ TaskInit0
InitRead  == EnumInit0 /\ DbInit /\ ReadInit0 /\ SchedInit0 /\ TaskInit0
\* A story of one chapter-list page of 1..MaxParseLinks links, each a
\* pagination control or not, its label and its href each carrying a
\* number 0..MaxNum or none.
InitParse == /\ \E n \in 1..MaxParseLinks :
                  site \in {<<page>> : page \in
                               [1..n -> [pager : BOOLEAN,
                                         tnum : {NoNum} \cup (0..MaxNum),
                                         unum : {NoNum} \cup (0..MaxNum),
                                         url : {0}]]}
             /\ enum = EnumIdle /\ catalog = SiteCatalog(1)
             /\ lwalk = WalkIdle /\ pager = PagerIdle
             /\ DbInit /\ ReadInit0 /\ SchedInit0 /\ TaskInit0
InitCancel == /\ EnumInit0 /\ DbInit /\ ReadInit0 /\ TaskInit0
              /\ is_running = FALSE
              /\ auto_enabled = FALSE
              /\ current_story = <<>>
              /\ stats = StatsZero
              /\ progress = ProgressIdle
              /\ workers = [w \in WorkerIds \cup {LostId} |-> WorkerIdle]
InitSched == EnumInit0 /\ DbInit /\ ReadInit0 /\ SchedInit0 /\ TaskInit0
InitLoop  == /\ site = <<<<>>>> /\ enum = EnumIdle /\ catalog = SiteCatalog(2)
             /\ lwalk = WalkIdle /\ pager = PagerIdle
             /\ DbInit /\ ReadInit0 /\ SchedInit0 /\ TaskInit0
InitPager == /\ site = <<<<>>>> /\ enum = EnumIdle /\ catalog = SiteCatalog(1)
             /\ lwalk = WalkIdle
             /\ pager \in [pc : {"idle"}, markup : Markups, total_pages : {1}]
             /\ DbInit /\ ReadInit0 /\ SchedInit0 /\ TaskInit0
InitList  == /\ site = <<<<>>>> /\ enum = EnumIdle /\ IsCatalog(catalog)
             /\ lwalk = WalkIdle /\ pager = PagerIdle
             /\ DbInit /\ ReadInit0 /\ SchedInit0 /\ TaskInit0

\* Manual run 1 at the entry of the batch loop of a story of n chapters:
\* the state MetadataPhase hands to BatchLoop.
InitBatch == /\ EnumInit0 /\ ReadInit0 /\ TaskInit0
             /\ chapters = EmptyTable /\ storage = EmptyTable
             /\ is_running = TRUE
             /\ auto_enabled = FALSE
             /\ stats = StatsZero
             /\ current_story = extract_slug_from_url(StoryUrl(1))
             /\ \E n \in 1..MaxBatchChapters :
                  /\ stories = upsert_story({}, current_story, n)
                  /\ progress = [ProgressIdle EXCEPT !.total_chapters = n,
                                                     !.status = "saving_chapters"]
                  /\ workers = [w \in WorkerIds |->
                        IF w = 1
                        THEN [WorkerIdle EXCEPT
                                !.pc = "saving", !.cats = <<"new">>, !.max_pages = 1,
                                !.cat = 1, !.list = <<StoryUrl(1)>>, !.si = 1,
                                !.story_id = story_id_by_slug(stories, current_story),
                                !.chs = [j \in 1..n |-> [chapter_number |-> j, url |-> j]]]
                        ELSE WorkerIdle]

SpecEnum  == InitEnum /\ [][NextEnum]_vars
SpecList  == InitList /\ [][NextList]_vars
SpecPager == InitPager /\ [][NextPager]_vars
SpecRead  == InitRead /\ [][NextRead]_vars
SpecSched == InitSched /\ [][NextSched]_vars
SpecAuto  == InitSched /\ [][NextAuto]_vars
SpecLoop  == InitLoop /\ [][NextLoop]_vars /\ WF_vars(AutoStep)
SpecCancel == InitCancel /\ [][NextCancel]_vars
SpecTask  == InitSched /\ [][NextTask]_vars
SpecCelery == InitSched /\ [][NextCelery]_vars
SpecParse == InitParse /\ [][NextEnum]_vars
SpecBatch == InitBatch /\ [][SaveBatches(1)]_vars

(***************************************************************************)
(* Properties.                                                              *)
(***************************************************************************)

\* C1 (SpecEnum): the chapter list an enumeration yields has no two entries
\* with the same chapter_number and is ascending by chapter_number, both as
\* crawl_story returns it and as each consumer (scheduler pipeline, runner)
\* persists it.
C1_EnumerationUniqueSorted ==
    /\ enum.pc \in {"crawled", "scheduler", "runner"} =>
           NoDuplicate(enum.crawled) /\ Ascending(enum.crawled)
    /\ enum.pc \in {"scheduler", "runner"} =>
           NoDuplicate(enum.persisted) /\ Ascending(enum.persisted)

\* C2 (SpecRead): a read fetches live only when the archive tier and the
\* inline tier both yielded nothing: never when the archived blob of the row
\* was read, never when the row has a non-empty inline body; and the inline
\* body is not consulted when the archive yielded text.
C2_TierOrder ==
    /\ (rd.pc = "fetching" \/ rd.live # "skipped") =>
           /\ rd.archive # "hit"
           /\ rd.inline = "miss"
           /\ ~Truthy(rd.chapter.content)
    /\ rd.archive = "hit" => rd.inline = "skipped" /\ rd.chapter.is_archived
    /\ (rd.pc = "done" /\ rd.inline = "hit") => rd.content = rd.chapter.content

\* A read that was served by the archive tier and fetched nothing.
C2_Witness ==
    /\ rd.pc = "done"
    /\ rd.archive = "hit"
    /\ rd.live = "skipped"
    /\ Truthy(rd.content)

\* C3 (SpecSched): a manual run cancelled by stop_auto_crawl after the
\* backfill of chapter k and before that of chapter k + 1 leaves the chapters
\* after k untouched: the run stores no blob for any of them.  (stopped is
\* the k of the cancellation, wrote_after records a blob stored for a later
\* chapter of the story.)
C3_CancelledRunWritesNoMore ==
    \A w \in RunIds : ~workers[w].wrote_after

\* C4 (SpecSched): at most one manual run is in flight at any time.
ManualInFlight == {"listing", "enumerating", "fetching", "sleeping"}

C4_OneManualRun ==
    Cardinality({w \in RunIds : workers[w].pc \in ManualInFlight}) <= 1

\* C5 (SpecSched): a chapter is never partially written: it is either fully
\* archived (blob stored, is_archived set, inline body cleared) or untouched
\* by the archive write (no blob, flag unset).
C5_NeverPartiallyWritten ==
    \A k \in (DOMAIN chapters) \cup (DOMAIN storage) :
        \/ /\ k \in DOMAIN storage
           /\ k \in DOMAIN chapters
           /\ chapters[k].is_archived
           /\ ~Truthy(chapters[k].content)
        \/ /\ k \notin DOMAIN storage
           /\ ~is_chapter_archived(chapters, k)

\* C6 (SpecCelery): once a task's status is completed or failed, no later
\* write changes its status, percent or error.
TerminalStatus == {"completed", "failed"}

C6_TerminalIsFinal ==
    [][\A t \in DOMAIN tasks :
          tasks[t].status \in TerminalStatus => tasks'[t] = tasks[t]]_vars

\* C7 (SpecRead): when the live tier's fetch fails or the page parses to no
\* body, the read returns the non-empty placeholder error string.
C7_LiveFailureYieldsPlaceholder ==
    (rd.pc = "done" /\ rd.live \in {"error", "empty"}) =>
        Truthy(rd.content) /\ rd.content = Placeholder

C9_OneStoryRowPerSlug ==
    /\ [](/\ \A r1, r2 \in stories : r1.slug = r2.slug => r1 = r2
          /\ \A w \in RunIds :
                workers[w].story_id # 0 =>
                    workers[w].story_id =
                        story_id_by_slug(stories,
                            extract_slug_from_url(workers[w].list[workers[w].si])))
    /\ [][\A r \in stories : story_id_by_slug(stories', r.slug) = r.id]_vars

\* Run 1 went through the pipeline and returned (it archived chapter 2), run
\* 2 is in the pipeline of the same URL, on the same single row.
C9_Witness ==
    /\ workers[1].pc = "returned"
    /\ workers[1].result = "completed"
    /\ workers[2].pc = "fetching"
    /\ workers[2].ci = 1
    /\ workers[2].story_id = 1
    /\ is_chapter_archived(chapters, <<1, 2>>)
    /\ Cardinality(stories) = 1

\* C10 (SpecTask): an init_crawl call made while a manual run is active and
\* a runner of the same URL is in flight is answered busy and starts no work.
C10_SecondSubmitIsBusy ==
    \A t \in TaskIds :
        runners[t].duplicate =>
            runners[t].response = "busy" /\ runners[t].pc = "none"

C12_PageFailureDoesNotAbort ==
    enum.pc \in {"crawled", "raised"} =>
        /\ enum.pc = "crawled"
        /\ enum.crawled = ExtendPages(site, 1, enum.failed)

(***************************************************************************)
(* C13: a run of run_full_crawl that is over went through every chapter of  *)
(* its list unless an exception reached its top-level handler; its task     *)
(* row then reads failed, with the error text, if an exception reached the  *)
(* handler, and completed otherwise.                                        *)
(***************************************************************************)
C13_FailedIffTopLevelException ==
    \A t \in TaskIds :
        runners[t].pc \in {"exited", "crashed"} =>
            /\ t \in DOMAIN tasks
            /\ IF runners[t].escaped
               THEN tasks[t].status = "failed" /\ tasks[t].error = TaskError
               ELSE /\ tasks[t].status = "completed"
                    /\ runners[t].ci = Len(runners[t].chs)

(***************************************************************************)
(* C14: crawl_story_list fetches at most max_pages pages; it starts at the  *)
(* listing URL and every further page is the one the page before links to   *)
(* as its next page; when it returns, it has fetched max_pages pages or the *)
(* last page fetched reports no next page; what it returns is the stubs of  *)
(* the pages fetched, concatenated in the order fetched.                    *)
(***************************************************************************)
RECURSIVE StubsOfPages(_, _, _)
StubsOfPages(c, fetched, i) ==
    IF i > Len(fetched) THEN <<>>
    ELSE c[fetched[i]].stubs \o StubsOfPages(c, fetched, i + 1)

C14_ListingWalkBounded ==
    LET n == Len(lwalk.fetched) IN
    /\ n <= lwalk.max_pages
    /\ \A i \in 1..n :
          lwalk.fetched[i] = IF i = 1 THEN 1 ELSE catalog[lwalk.fetched[i - 1]].next
    /\ lwalk.pc = "done" =>
          /\ \/ n = lwalk.max_pages
             \/ n > 0 /\ catalog[lwalk.fetched[n]].next = NoNext
          /\ lwalk.all_stories = StubsOfPages(catalog, lwalk.fetched, 1)
          /\ crawl_story_list(catalog, lwalk.max_pages)
                = [stories |-> lwalk.all_stories, fetched |-> lwalk.fetched]

\* The bound cut a walk short: pages were left that the last page links to.
C14_Witness ==
    /\ lwalk.pc = "done"
    /\ lwalk.max_pages = 2
    /\ Len(lwalk.fetched) = 2
    /\ catalog[lwalk.fetched[2]].next \notin {NoNext, 1, 2}
    /\ Len(lwalk.all_stories) = 2

(***************************************************************************)
(* C15: the page count get_pagination_info returns is the first of the      *)
(* three signals (the page number of the "last page" link, the greatest     *)
(* page number of a pagination link, the greatest bare-digit control text)  *)
(* that is greater than 1, and 1 when none of them is.                      *)
(***************************************************************************)
FirstSignalAboveOne(m) ==
    LET s1 == IF m.last # NoNum THEN m.last ELSE 0
        s2 == MaxFrom(0, m.links)
        s3 == MaxFrom(0, m.digits)
    IN  IF s1 > 1 THEN s1 ELSE IF s2 > 1 THEN s2 ELSE IF s3 > 1 THEN s3 ELSE 1

C15_FirstSignalAboveOne ==
    pager.pc = "done" => pager.total_pages = FirstSignalAboveOne(pager.markup)

(***************************************************************************)
(* C16: the step of a pipeline whose enumeration yields no chapter writes   *)
(* no story row, no chapter row and no blob, and leaves the statistics      *)
(* (stories_crawled, chapters_saved, errors) as they were.                  *)
(***************************************************************************)
C16_EmptyStoryIsSkipped ==
    [][\A w \in WorkerIds :
          (workers'[w].skipped /\ workers'[w] # workers[w]) =>
              /\ workers[w].pc = "enumerating"
              /\ stories' = stories
              /\ chapters' = chapters
              /\ storage' = storage
              /\ stats' = stats]_vars

\* A second run skips the story the first run has stored.
C16_Witness ==
    /\ workers[2].skipped
    /\ workers[1].result = "completed"
    /\ stories # {}
    /\ stats = StatsZero

(***************************************************************************)
(* C17: a manual run that was inside a story's pipeline when                *)
(* stop_auto_crawl was called begins no further chapter fetch and no        *)
(* further story afterwards, whatever is called in between.                 *)
(***************************************************************************)
C17_StoppedRunGoesNoFurther == \A w \in RunIds : ~workers[w].went_on

(***************************************************************************)
(* C18: is_running is true exactly while a manual run is in flight, and it  *)
(* changes only in a step in which a manual run is accepted (to true) or    *)
(* returns (to false); stop_auto_crawl and start_auto_crawl leave it alone. *)
(***************************************************************************)
C18_RunningOnlyAtEntryAndExit ==
    /\ [](is_running <=> \E w \in RunIds : workers[w].pc \in ManualInFlight)
    /\ [][is_running' # is_running =>
            \E w \in RunIds :
                IF is_running'
                THEN workers[w].pc = "idle" /\ workers'[w].pc \in ManualInFlight
                ELSE workers[w].pc \in ManualInFlight /\ workers'[w].pc = "returned"]_vars

(***************************************************************************)
(* C19: an auto pass and a manual run are never both inside the per-story   *)
(* pipeline, and at most one request to the source site is outstanding in   *)
(* the scheduler.                                                           *)
(***************************************************************************)
InPipeline == {"enumerating", "fetching", "sleeping"}

AwaitingSite == {"listing", "enumerating", "fetching"}

C19_AutoAndManualExclusive ==
    /\ ~(/\ workers[AutoId].pc \in InPipeline
         /\ \E w \in RunIds : workers[w].pc \in InPipeline)
    /\ Cardinality({w \in WorkerIds : workers[w].pc \in AwaitingSite}) <= 1

(***************************************************************************)
(* C20: the step in which stop_auto_crawl disables auto-discovery           *)
(* interrupts no unit of work: a worker that is awaiting a listing, a       *)
(* story page, a chapter page or the delay after a chapter is still in      *)
(* that unit after the step; it leaves it by its own next step.             *)
(***************************************************************************)
InUnitOfWork == {"listing", "enumerating", "fetching", "sleeping"}

C20_StopIsNotPreemptive ==
    [][(auto_enabled /\ ~auto_enabled') =>
          \A w \in WorkerIds :
              workers[w].pc \in InUnitOfWork =>
                  /\ workers'[w].pc = workers[w].pc
                  /\ workers'[w].si = workers[w].si
                  /\ workers'[w].ci = workers[w].ci]_vars

(***************************************************************************)
(* C21: no chapter row has is_archived set together with a non-empty        *)
(* inline body, whichever writers have run on the chapter.                  *)
(***************************************************************************)
C21_ArchivedRowHasNoInlineBody ==
    \A k \in DOMAIN chapters :
        ~(chapters[k].is_archived /\ Truthy(chapters[k].content))

(***************************************************************************)
(* C22: in the step of a backfill in which a chapter's text was fetched     *)
(* and the archive write failed, the text is written to the chapter's       *)
(* inline body.                                                             *)
(***************************************************************************)
C22_BackfillFallsBackToInline ==
    [][\A w \in WorkerIds :
          (/\ workers[w].pc = "fetching"
           /\ workers'[w].pc = "sleeping"
           /\ workers'[w].got \notin {"none", "empty"}
           /\ ~workers'[w].uploaded) =>
              LET k == <<workers[w].story_id,
                         workers[w].chs[workers[w].ci].chapter_number>>
              IN  /\ k \in DOMAIN chapters'
                  /\ chapters'[k].content = workers'[w].got]_vars

(***************************************************************************)
(* C23: a backfill issues its fetches in ascending chapter_number and       *)
(* never for a chapter whose is_archived flag is set; the chapters it       *)
(* passes over are archived before and after the step, which writes no     *)
(* blob and, past the metadata phase, no row.                               *)
(***************************************************************************)
C23_BackfillSkipsArchived ==
    [][\A w \in WorkerIds :
          LET a == workers[w]
              b == workers'[w]
              num(j) == b.chs[j].chapter_number
          IN  (b.pc = "fetching" /\ (a.pc # "fetching" \/ a.ci # b.ci)) =>
                  /\ Ascending(b.chs)
                  /\ ~is_chapter_archived(chapters', <<b.story_id, num(b.ci)>>)
                  /\ \A j \in 1..(b.ci - 1) :
                        j > a.ci \/ a.pc = "enumerating" =>
                            /\ is_chapter_archived(chapters, <<b.story_id, num(j)>>)
                            /\ is_chapter_archived(chapters', <<b.story_id, num(j)>>)
                  /\ storage' = storage
                  /\ a.pc \in {"fetching", "sleeping"} =>
                        /\ b.ci > a.ci
                        /\ chapters' = chapters]_vars

\* A second run has passed over chapter 1, archived by the first, and is
\* fetching chapter 2.
C23_Witness ==
    /\ workers[2].pc = "fetching"
    /\ workers[2].ci = 2
    /\ progress.current_chapter = 2
    /\ is_chapter_archived(chapters, <<workers[2].story_id, 1>>)
    /\ workers[1].pc = "returned"

(***************************************************************************)
(* C24: the batches of a pipeline that was not stopped are consecutive      *)
(* slices of at most 50 chapters of the ascending list, together each       *)
(* chapter exactly once; every chapter submitted has its row unless its own *)
(* upsert failed in the row-by-row fallback; the progress stands at the     *)
(* end of the last batch saved.                                             *)
(***************************************************************************)
RECURSIVE Flatten(_)
Flatten(ss) == IF ss = <<>> THEN <<>> ELSE Head(ss) \o Flatten(Tail(ss))

C24_BatchesPartitionAndFallBack ==
    \A w \in RunIds :
        LET a     == workers[w]
            total == Len(a.chs)
            done  == Min(a.bi, total)
            subm  == Flatten(a.batches)
        IN  a.pc \in {"saving", "saved"} =>
              /\ Ascending(a.chs)
              /\ subm = [j \in 1..done |-> a.chs[j].chapter_number]
              /\ \A b \in 1..Len(a.batches) :
                    Len(a.batches[b]) \in 1..batch_size
              /\ a.pc = "saved" => done = total
              /\ \A j \in 1..done :
                    <<a.story_id, subm[j]>> \in DOMAIN chapters
                        <=> subm[j] \notin a.lostrows
              /\ a.batches # <<>> =>
                    /\ progress.current_chapter = done
                    /\ progress.total_chapters = total
                    /\ progress.percent = Percent(done, total)

\* Three batches were saved, the bulk statement of one failed and one of its
\* rows was lost.
C24_Witness ==
    /\ workers[1].pc = "saved"
    /\ Len(workers[1].batches) = 3
    /\ workers[1].lostrows # {}
    /\ workers[1].saved_count = Len(workers[1].chs) - 1

C26_ArchiveFailureIsAMiss ==
    (rd.pc \in {"fetching", "done"} /\ rd.archive = "miss") =>
        /\ rd.chapter.is_archived
        /\ rd.inline \in {"hit", "miss"}
        /\ rd.inline = "hit" =>
              /\ rd.pc = "done"
              /\ rd.live = "skipped"
              /\ rd.content = rd.chapter.content
        /\ rd.inline = "miss" =>
              \/ rd.pc = "fetching"
              \/ rd.live # "skipped"

\* The archive tier failed, the inline column was empty and the live tier
\* has answered with a text.
C26_Witness ==
    /\ rd.pc = "done"
    /\ rd.archive = "miss"
    /\ rd.inline = "miss"
    /\ rd.live \in Texts
    /\ rd.content = rd.live

(***************************************************************************)
(* C27: a backfill never goes from one chapter fetch to the next in one     *)
(* step: the inter-request sleep lies between them, whatever the earlier    *)
(* fetch returned.                                                          *)
(***************************************************************************)
C27_DelayBetweenFetches ==
    [][\A w \in WorkerIds :
          ~(/\ workers[w].pc = "fetching"
            /\ workers'[w].pc = "fetching"
            /\ workers'[w].ci # workers[w].ci)]_vars

(***************************************************************************)
(* C28: no step lowers a counter of the scheduler's statistics.             *)
(***************************************************************************)
C28_CountersNeverDecrease ==
    [][/\ stats'.stories_crawled >= stats.stories_crawled
       /\ stats'.chapters_saved >= stats.chapters_saved
       /\ stats'.errors >= stats.errors]_vars

(***************************************************************************)
(* C29: the step that upserts the story row after an enumeration, in the    *)
(* scheduler pipeline and in the task runner, leaves on the row a           *)
(* total_chapters equal to the number of distinct chapter_numbers of the    *)
(* list it enumerated.                                                      *)
(***************************************************************************)
DistinctNumbers(list) ==
    Cardinality({list[j].chapter_number : j \in 1..Len(list)})

TotalOnRow(id) == (CHOOSE r \in stories' : r.id = id).total_chapters

C29_TotalIsDistinctCount ==
    [][/\ \A w \in WorkerIds :
            (workers[w].pc = "enumerating" /\ workers'[w].pc = "fetching") =>
                TotalOnRow(workers'[w].story_id) = DistinctNumbers(workers'[w].chs)
       /\ \A t \in TaskIds :
            (runners[t].pc = "crawling" /\ runners'[t].pc = "chapter") =>
                TotalOnRow(runners'[t].story_id) = DistinctNumbers(runners'[t].chs)]_vars

(***************************************************************************)
(* C30: every record of an enumerated list, and every record of the list    *)
(* persisted from it, has an integer chapter_number of at least 1, whatever *)
(* the labels and hrefs of the links: a number 0 or no number included.     *)
(***************************************************************************)
C30_ChapterNumberPositive ==
    enum.pc \in {"crawled", "scheduler", "runner"} =>
        /\ \A j \in 1..Len(enum.crawled) :
              /\ enum.crawled[j].chapter_number \in Nat
              /\ enum.crawled[j].chapter_number >= 1
        /\ \A j \in 1..Len(enum.persisted) :
              /\ enum.persisted[j].chapter_number \in Nat
              /\ enum.persisted[j].chapter_number >= 1

\* A list was persisted from pages that carry a link numbered 0 and a link
\* without a number.
C30_Witness ==
    /\ enum.pc \in {"scheduler", "runner"}
    /\ enum.failed = {}
    /\ \E p \in 1..Len(site) : \E i \in 1..Len(site[p]) : site[p][i] = ZeroLink
    /\ \E p \in 1..Len(site) : \E i \in 1..Len(site[p]) : site[p][i] = PlainLink
    /\ Len(enum.persisted) >= 2

(***************************************************************************)
(* C31: the number of each record parsed from a page is the number of the   *)
(* link's title label if the title has one, whatever the URL carries; else  *)
(* the number of the URL's suffix; else, or when that number is 0, the      *)
(* sequential number the caller assigns.                                    *)
(***************************************************************************)
IsChapterLink(link) == ~link.pager

RealLinks(page) == SelectSeq(page, IsChapterLink)

C31_TitleThenUrlThenIndex ==
    enum.pc = "crawled" =>
        LET real == RealLinks(site[1])
        IN  /\ Len(enum.crawled) = Len(real)
            /\ \A j \in 1..Len(real) :
                  LET got == IF real[j].tnum # NoNum THEN real[j].tnum
                             ELSE real[j].unum
                  IN  enum.crawled[j].chapter_number =
                          IF got \in {NoNum, 0} THEN j ELSE got

\* A link whose label and href carry different numbers was numbered by its
\* label.
C31_Witness ==
    /\ enum.pc = "crawled"
    /\ Len(site[1]) = 1
    /\ ~site[1][1].pager
    /\ site[1][1].tnum = 2
    /\ site[1][1].unum = 3
    /\ enum.crawled[1].chapter_number = 2

(***************************************************************************)
(* C32: a pagination control on a chapter-list page yields no record and    *)
(* takes no sequential number: the records parsed from the page are those   *)
(* parsed from the page without its pagination controls.                    *)
(***************************************************************************)
C32_PagersLeaveNoTrace ==
    enum.pc = "crawled" =>
        /\ Len(enum.crawled) = Len(RealLinks(site[1]))
        /\ enum.crawled = parse_chapter_list(RealLinks(site[1]))

\* A chapter link without a number, behind a pagination control whose href
\* carries a number, was numbered 1.
C32_Witness ==
    /\ enum.pc = "crawled"
    /\ Len(site[1]) = 2
    /\ site[1][1].pager
    /\ site[1][1].unum = 2
    /\ ~site[1][2].pager
    /\ site[1][2].tnum = NoNum
    /\ site[1][2].unum = NoNum
    /\ enum.crawled = <<[chapter_number |-> 1, url |-> 0]>>

(***************************************************************************)
(* C33: a read whose live tier parsed a text returns that text, whatever    *)
(* became of the archive write and of the inline write behind it.           *)
(***************************************************************************)
C33_FetchedTextIsReturned ==
    (rd.pc = "done" /\ rd.live \in Texts) => rd.content = rd.live

(***************************************************************************)
(* C34: no write to the chapter table takes a stored body away: a chapter   *)
(* that has a non-empty inline body, or an archived blob with its flag set, *)
(* has one of the two after every step, the metadata upsert included.       *)
(***************************************************************************)
HasBody(tbl, sto, k) ==
    /\ k \in DOMAIN tbl
    /\ \/ Truthy(tbl[k].content)
       \/ tbl[k].is_archived /\ k \in DOMAIN sto

C34_MetadataKeepsBodies ==
    [][\A k \in DOMAIN chapters :
          HasBody(chapters, storage, k) => HasBody(chapters', storage', k)]_vars

(***************************************************************************)
(* C35: in every state the progress record has a percent within 0..100 and  *)
(* a current_chapter within 0..total_chapters.                              *)
(***************************************************************************)
C35_ProgressWithinRange ==
    /\ progress.percent >= 0
    /\ progress.percent <= 100
    /\ progress.current_chapter >= 0
    /\ progress.current_chapter <= progress.total_chapters

(***************************************************************************)
(* C36: the step of a run that sets the progress to done and 100 percent    *)
(* ends a pipeline that was not cancelled and whose content loop went       *)
(* through every chapter of the story: each chapter behind the last one     *)
(* fetched was passed over as archived.                                     *)
(***************************************************************************)
C36_DoneOnlyAfterEveryChapter ==
    [][\A w \in DOMAIN workers :
          LET a == workers[w]
          IN  (/\ a.pc \in {"enumerating", "fetching", "sleeping"}
               /\ workers'[w] # a
               /\ progress.status # "done"
               /\ progress'.status = "done"
               /\ progress'.percent = 100) =>
                  /\ is_running \/ auto_enabled
                  /\ a.pc # "enumerating" =>
                        \A j \in (a.ci + 1)..Len(a.chs) :
                            is_chapter_archived(chapters,
                                <<a.story_id, a.chs[j].chapter_number>>)]_vars

(***************************************************************************)
(* C37: at most one auto loop is alive, and with auto-discovery disabled    *)
(* no loop is inside a pass.                                                *)
(***************************************************************************)
InPass == {"listing", "enumerating", "fetching", "sleeping"}

C37_AtMostOneAutoLoop ==
    LET loops == AutoIds \cap DOMAIN workers
    IN  /\ Cardinality({w \in loops : workers[w].pc # "idle"}) <= 1
        /\ ~auto_enabled => \A w \in loops : workers[w].pc \notin InPass

(***************************************************************************)
(* C38: once the runner of a task has ended, the task's row exists and its  *)
(* status is completed or failed.                                           *)
(***************************************************************************)
C38_EndedRunnerHasTerminalTask ==
    \A t \in TaskIds :
        runners[t].pc \in {"exited", "crashed"} =>
            /\ t \in DOMAIN tasks
            /\ tasks[t].status \in {"completed", "failed"}


(***************************************************************************)
(* C39.  Enumeration never merges two different chapters: two chapter       *)
(* links with distinct source URLs, on the same listing page or on          *)
(* different ones, never receive the same chapter_number, and so every      *)
(* chapter that crawl_story discovered is still present, by its URL, in     *)
(* the deduplicated list the scheduler persists.                            *)
(***************************************************************************)
C39_DistinctChaptersStayDistinct ==
    enum.pc \in {"crawled", "scheduler", "runner"} =>
        /\ \A i, j \in 1..Len(enum.crawled) :
              enum.crawled[i].url # enum.crawled[j].url =>
                  enum.crawled[i].chapter_number # enum.crawled[j].chapter_number
        /\ enum.pc = "scheduler" =>
              \A i \in 1..Len(enum.crawled) :
                  \E j \in 1..Len(enum.persisted) :
                      enum.persisted[j].url = enum.crawled[i].url

====
